---- MODULE Spec2Model ----
(***************************************************************************)
(* Model of src/src/shop_management.py: a shop (products, customers,       *)
(* orders, order line items) kept in one SQLite database file.             *)
(*                                                                         *)
(* Spec      every command as one blocking call, from an empty file; its   *)
(*           orders are for one unit per line.                             *)
(* OrderSpec create_order calls, with every quantity and every token the   *)
(*           parser is given, against a stocked catalog.                   *)
(* ConcSpec  several create_order calls, each on its own connection,       *)
(*           interleaved statement by statement under SQLite's locking.    *)
(***************************************************************************)
EXTENDS Integers, Sequences, FiniteSets, TLC

VARIABLES
    store,      \* the database file: schema flag, four tables, sqlite_sequence
    last,       \* the most recent call: operation, arguments, outcome
    lock,       \* connections holding SQLite's RESERVED (writer) lock
    journal,    \* per connection: the rollback journal (the file at BEGIN)
    intx,       \* per connection: a transaction is open
    pc,         \* per connection: position inside create_order
    call,       \* per connection: arguments of the running create_order
    lineno,     \* per connection: index of the line the loop is at
    row,        \* per connection: the row fetched by the SELECT of this line
    order_id,   \* per connection: cursor.lastrowid of the INSERT INTO orders
    stock0      \* OrderSpec, ConcSpec: every product's stock before the calls started

vars == <<store, last, lock, journal, intx, pc, call, lineno, row, order_id, stock0>>

concVars == <<lock, journal, intx, pc, call, lineno, row, order_id, stock0>>

----------------------------------------------------------------------------
(* Bounds of the model *)

MaxProducts == 2
MaxCustomers == 1
MaxOrders == 2
MaxLines == 2
MaxQty == 2
MaxStock == 2
MaxPrice == 2
MaxTime == 1
NumProcs == 2

ProductIds == 1..MaxProducts
CustomerIds == 1..MaxCustomers
Quantities == (0 - 1)..MaxQty
Stocks == (0 - 1)..MaxStock
Prices == 1..MaxPrice
Times == 1..MaxTime
Procs == 1..NumProcs
ProductNames == {"A"}
CustomerNames == {"n"}
Emails == {"e"}

----------------------------------------------------------------------------
(* Records and the empty database *)

OrderLine(product_id, quantity) == [product_id |-> product_id, quantity |-> quantity]

OrderLines == [product_id : ProductIds, quantity : Quantities]

\* the lines of the orders placed in Spec: one unit of a product
UnitLines == [product_id : ProductIds, quantity : {1}]

CallerCustomerIds == 1..(MaxCustomers + 1)

SeqsUpTo(S, n) == UNION {[1..k -> S] : k \in 0..n}

EmptyTable == [id \in {} |-> 0]

EmptyStore ==
    [schema |-> FALSE,
     products |-> EmptyTable,
     customers |-> EmptyTable,
     orders |-> EmptyTable,
     order_items |-> <<>>,
     seq |-> [products |-> 0, customers |-> 0, orders |-> 0]]

NoRow == [found |-> FALSE, price |-> 0, stock |-> 0]

NoCall == [customer_id |-> 0, lines |-> <<>>, created_at |-> 0]

NoLast ==
    [op |-> "none", result |-> "none", id |-> 0, stock |-> 0, customer_id |-> 0,
     supplied |-> 0, named |-> {}, lines |-> <<>>, order_id |-> 0,
     failed_at |-> 0, available |-> 0]

Outcome(op, result, id) == [NoLast EXCEPT !.op = op, !.result = result, !.id = id]

----------------------------------------------------------------------------
(* connect: PRAGMA foreign_keys = ON, and the connection as a context      *)
(* manager: commit when the block ends normally, rollback when it raises.  *)

foreign_keys_off == FALSE

foreign_keys == TRUE

connection_exit_commits(before, after, raised) == after

connection_exit(before, after, raised) == IF raised THEN before ELSE after

----------------------------------------------------------------------------
(* The SQL statements *)

SqlCreateTablesIfNotExists_recreate(s) == [EmptyStore EXCEPT !.schema = TRUE]

SqlCreateTablesIfNotExists(s) == [s EXCEPT !.schema = TRUE]

SqlInsertProduct(s, name, price, stock) ==
    LET id == s.seq.products + 1
    IN [s EXCEPT !.products = (id :> [name |-> name, price |-> price, stock |-> stock]) @@ @,
                 !.seq.products = id]

SqlUpdateStock_delta(s, stock, product_id) ==
    [s EXCEPT !.products = [p \in DOMAIN s.products |->
        IF p = product_id THEN [s.products[p] EXCEPT !.stock = s.products[p].stock + stock]
        ELSE s.products[p]]]

SqlUpdateStock(s, stock, product_id) ==
    [s EXCEPT !.products = [p \in DOMAIN s.products |->
        IF p = product_id THEN [s.products[p] EXCEPT !.stock = stock]
        ELSE s.products[p]]]

ProductReferenced_never(s, product_id) == FALSE

\* FOREIGN KEY (product_id) REFERENCES products(id): a product that a line
\* item references cannot be deleted
ProductReferenced(s, product_id) ==
    \E i \in 1..Len(s.order_items) : s.order_items[i].product_id = product_id

SqlDeleteProduct(s, product_id) ==
    [s EXCEPT !.products = [p \in DOMAIN s.products \ {product_id} |-> s.products[p]]]

SqlInsertCustomer(s, name, email) ==
    LET id == s.seq.customers + 1
    IN [s EXCEPT !.customers = (id :> [name |-> name, email |-> email]) @@ @,
                 !.seq.customers = id]

CustomerFkOk_unchecked(s, customer_id) == TRUE

\* FOREIGN KEY (customer_id) REFERENCES customers(id)
CustomerFkOk(s, customer_id) == foreign_keys => customer_id \in DOMAIN s.customers

SqlInsertOrder(s, customer_id, timestamp) ==
    LET id == s.seq.orders + 1
    IN [s EXCEPT !.orders = (id :> [customer_id |-> customer_id, created_at |-> timestamp]) @@ @,
                 !.seq.orders = id]

SqlSelectProduct(s, product_id) ==
    IF product_id \in DOMAIN s.products
    THEN [found |-> TRUE, price |-> s.products[product_id].price,
          stock |-> s.products[product_id].stock]
    ELSE NoRow

LastRowId_stale(s) == s.seq.orders - 1

\* cursor.lastrowid after the INSERT INTO orders
LastRowId(s) == s.seq.orders

InsufficientStock_lenient(r, line) == r.stock + 1 < line.quantity

InsufficientStock_strict(r, line) == r.stock <= line.quantity

InsufficientStock(r, line) == r.stock < line.quantity

SqlInsertOrderItem_linetotal(s, oid, line, r) ==
    [s EXCEPT !.order_items = Append(@,
        [order_id |-> oid, product_id |-> line.product_id,
         quantity |-> line.quantity, price |-> r.price * line.quantity])]

SqlInsertOrderItem(s, oid, line, r) ==
    [s EXCEPT !.order_items = Append(@,
        [order_id |-> oid, product_id |-> line.product_id,
         quantity |-> line.quantity, price |-> r.price])]

SqlDecrementStock_nowhere(s, line) ==
    [s EXCEPT !.products = [p \in DOMAIN s.products |->
        [s.products[p] EXCEPT !.stock = s.products[p].stock - line.quantity]]]

SqlDecrementStock_unit(s, line) ==
    [s EXCEPT !.products = [p \in DOMAIN s.products |->
        IF p = line.product_id
        THEN [s.products[p] EXCEPT !.stock = s.products[p].stock - 1]
        ELSE s.products[p]]]

SqlDecrementStock(s, line) ==
    [s EXCEPT !.products = [p \in DOMAIN s.products |->
        IF p = line.product_id
        THEN [s.products[p] EXCEPT !.stock = s.products[p].stock - line.quantity]
        ELSE s.products[p]]]

----------------------------------------------------------------------------
(* The catalog operations, as functions from the database to the database  *)
(* after the call and the call's outcome                                   *)

init_db(s) == [store |-> SqlCreateTablesIfNotExists(s), result |-> "ok", id |-> 0]

add_product(s, name, price, stock) ==
    IF ~s.schema
    THEN [store |-> s, result |-> "operational_error", id |-> 0]
    ELSE [store |-> connection_exit(s, SqlInsertProduct(s, name, price, stock), FALSE),
          result |-> "ok", id |-> s.seq.products + 1]

update_product_stock(s, product_id, stock) ==
    IF ~s.schema
    THEN [store |-> s, result |-> "operational_error", id |-> 0]
    ELSE [store |-> connection_exit(s, SqlUpdateStock(s, stock, product_id), FALSE),
          result |-> "ok", id |-> product_id]

delete_product(s, product_id) ==
    IF ~s.schema
    THEN [store |-> s, result |-> "operational_error", id |-> 0]
    ELSE LET raised == foreign_keys /\ ProductReferenced(s, product_id)
         IN [store |-> connection_exit(s, SqlDeleteProduct(s, product_id), raised),
             result |-> IF raised THEN "integrity_error" ELSE "ok",
             id |-> product_id]

add_customer(s, name, email) ==
    IF ~s.schema
    THEN [store |-> s, result |-> "operational_error", id |-> 0]
    ELSE [store |-> connection_exit(s, SqlInsertCustomer(s, name, email), FALSE),
          result |-> "ok", id |-> s.seq.customers + 1]

----------------------------------------------------------------------------
(* _parse_order_lines: tokens are sequences of characters                  *)

Digits == <<"0", "1", "2", "3", "4", "5", "6", "7", "8", "9">>

IsDigit(c) == \E d \in 1..10 : Digits[d] = c

DigitValue(c) == (CHOOSE d \in 1..10 : Digits[d] = c) - 1

HasColon(raw) == \E k \in 1..Len(raw) : raw[k] = ":"

FirstColon(raw) == CHOOSE k \in 1..Len(raw) :
    raw[k] = ":" /\ \A j \in 1..(k - 1) : raw[j] # ":"

\* int(text): an optional sign, then one or more decimal digits (the tokens
\* here carry no white space and no underscores)
Unsigned(text) == IF text # <<>> /\ text[1] \in {"-", "+"} THEN Tail(text) ELSE text

IntValid(text) ==
    /\ Unsigned(text) # <<>>
    /\ \A k \in 1..Len(Unsigned(text)) : IsDigit(Unsigned(text)[k])

RECURSIVE Magnitude(_)
Magnitude(digits) ==
    IF digits = <<>> THEN 0
    ELSE 10 * Magnitude(SubSeq(digits, 1, Len(digits) - 1)) + DigitValue(digits[Len(digits)])

IntValue(text) ==
    IF text[1] = "-" THEN 0 - Magnitude(Unsigned(text)) ELSE Magnitude(Unsigned(text))

TokenValid(raw) ==
    /\ HasColon(raw)
    /\ IntValid(SubSeq(raw, 1, FirstColon(raw) - 1))
    /\ IntValid(SubSeq(raw, FirstColon(raw) + 1, Len(raw)))

TokenLine(raw) ==
    OrderLine(IntValue(SubSeq(raw, 1, FirstColon(raw) - 1)),
              IntValue(SubSeq(raw, FirstColon(raw) + 1, Len(raw))))

parse_order_lines(raw_lines) ==
    IF \E k \in 1..Len(raw_lines) : ~TokenValid(raw_lines[k])
    THEN [ok |-> FALSE, lines |-> <<>>]
    ELSE IF raw_lines = <<>>
    THEN [ok |-> FALSE, lines |-> <<>>]
    ELSE [ok |-> TRUE, lines |-> [k \in 1..Len(raw_lines) |-> TokenLine(raw_lines[k])]]

UnitTokens == { <<"1", ":", "1">>, <<"2", ":", "1">>, <<"1", "1">> }

Tokens ==
    { <<"1", ":", "1">>, <<"2", ":", "2">>, <<"1", ":", "0">>,
      <<"1", ":", "-", "1">>, <<"+", "2", ":", "0", "1">>,
      <<"1", "1">>, <<"1", ":">>, <<"1", ":", "1", ":", "1">> }

----------------------------------------------------------------------------
(* create_order, run by one caller from start to finish                    *)

RECURSIVE ProcessLines(_, _, _, _)
ProcessLines(s, oid, lines, i) ==
    IF i > Len(lines)
    THEN [store |-> s, result |-> "ok", failed_at |-> 0, available |-> 0]
    ELSE LET line == lines[i]
             r == SqlSelectProduct(s, line.product_id)
         IN IF ~r.found
            THEN [store |-> s, result |-> "not_found", failed_at |-> i, available |-> 0]
            ELSE IF InsufficientStock(r, line)
            THEN [store |-> s, result |-> "insufficient_stock", failed_at |-> i,
                  available |-> r.stock]
            ELSE ProcessLines(
                    SqlDecrementStock(SqlInsertOrderItem(s, oid, line, r), line),
                    oid, lines, i + 1)

create_order(s, customer_id, lines, timestamp) ==
    IF ~s.schema
    THEN [store |-> s, result |-> "operational_error", order_id |-> 0,
          failed_at |-> 0, available |-> 0]
    ELSE IF ~CustomerFkOk(s, customer_id)
    THEN [store |-> connection_exit(s, s, TRUE), result |-> "integrity_error",
          order_id |-> 0, failed_at |-> 0, available |-> 0]
    ELSE LET inserted == SqlInsertOrder(s, customer_id, timestamp)
             oid == LastRowId(inserted)
             body == ProcessLines(inserted, oid, lines, 1)
         IN [store |-> connection_exit(s, body.store, body.result # "ok"),
             result |-> body.result,
             order_id |-> IF body.result = "ok" THEN oid ELSE 0,
             failed_at |-> body.failed_at,
             available |-> body.available]

----------------------------------------------------------------------------
(* list_orders: the join of orders, customers and order_items, grouped by   *)
(* order, with SUM(quantity * price); the rows as a set                    *)

JoinedItems(s, oid) ==
    IF oid \in DOMAIN s.orders /\ s.orders[oid].customer_id \in DOMAIN s.customers
    THEN SelectSeq(s.order_items, LAMBDA it : it.order_id = oid)
    ELSE <<>>

RECURSIVE SumTotal_prices(_)
SumTotal_prices(items) ==
    IF items = <<>> THEN 0
    ELSE items[1].price + SumTotal_prices(Tail(items))

RECURSIVE SumTotal(_)
SumTotal(items) ==
    IF items = <<>> THEN 0
    ELSE items[1].quantity * items[1].price + SumTotal(Tail(items))

list_orders(s) ==
    { [id |-> oid,
       created_at |-> s.orders[oid].created_at,
       customer_name |-> s.customers[s.orders[oid].customer_id].name,
       total |-> SumTotal(JoinedItems(s, oid))] :
      oid \in {o \in DOMAIN s.orders : JoinedItems(s, o) # <<>>} }

----------------------------------------------------------------------------
(* Spec: the commands, one blocking call at a time                         *)

Idle(p) == [q \in Procs |-> p]

Init ==
    /\ store = EmptyStore
    /\ last = NoLast
    /\ lock = {}
    /\ journal = Idle(EmptyStore)
    /\ intx = Idle(FALSE)
    /\ pc = Idle("idle")
    /\ call = Idle(NoCall)
    /\ lineno = Idle(0)
    /\ row = Idle(NoRow)
    /\ order_id = Idle(0)
    /\ stock0 = EmptyTable

Finish(op, out) ==
    /\ store' = out.store
    /\ last' = Outcome(op, out.result, out.id)
    /\ UNCHANGED concVars

InitDb == Finish("init_db", init_db(store))

AddProduct ==
    /\ store.seq.products < MaxProducts
    /\ \E name \in ProductNames, price \in Prices, stock \in Stocks :
          Finish("add_product", add_product(store, name, price, stock))

UpdateStock ==
    \E product_id \in ProductIds, stock \in Stocks :
        LET out == update_product_stock(store, product_id, stock)
        IN /\ store' = out.store
           /\ last' = [Outcome("update_product_stock", out.result, out.id)
                          EXCEPT !.stock = stock]
           /\ UNCHANGED concVars

DeleteProduct ==
    \E product_id \in ProductIds :
        Finish("delete_product", delete_product(store, product_id))

AddCustomer ==
    /\ store.seq.customers < MaxCustomers
    /\ \E name \in CustomerNames, email \in Emails :
          Finish("add_customer", add_customer(store, name, email))

\* last keeps the lines the call consumed: all of them on success, those up to
\* and including the failing one when the loop raised; of the lines supplied it
\* keeps the number and the product ids they name
Consumed(lines, out) ==
    IF out.result = "ok" THEN lines
    ELSE IF out.failed_at > 0 THEN SubSeq(lines, 1, out.failed_at)
    ELSE <<>>

FinishOrder(customer_id, lines, out) ==
    /\ store' = out.store
    /\ last' = [NoLast EXCEPT !.op = "create_order", !.result = out.result,
                              !.customer_id = customer_id,
                              !.supplied = Len(lines),
                              !.named = {lines[i].product_id : i \in 1..Len(lines)},
                              !.lines = Consumed(lines, out),
                              !.order_id = out.order_id,
                              !.failed_at = out.failed_at,
                              !.available = out.available]
    /\ UNCHANGED concVars

\* the engine called by any driver
CreateOrderFrom(lineSets) ==
    /\ store.seq.orders < MaxOrders
    /\ \E customer_id \in CallerCustomerIds, lines \in lineSets, timestamp \in Times :
          FinishOrder(customer_id, lines,
                      create_order(store, customer_id, lines, timestamp))

\* the create-order command: parse the tokens, then call the engine
CreateOrderCmdFrom(tokenSets) ==
    /\ store.seq.orders < MaxOrders
    /\ \E customer_id \in CallerCustomerIds, raw_lines \in tokenSets, timestamp \in Times :
          LET parsed == parse_order_lines(raw_lines)
          IN IF ~parsed.ok
             THEN /\ store' = store
                  /\ last' = [NoLast EXCEPT !.op = "parse_order_lines",
                                            !.result = "validation_error",
                                            !.customer_id = customer_id,
                                            !.supplied = Len(raw_lines)]
                  /\ UNCHANGED concVars
             ELSE FinishOrder(customer_id, parsed.lines,
                              create_order(store, customer_id, parsed.lines, timestamp))

CreateOrder == CreateOrderFrom(SeqsUpTo(UnitLines, MaxLines))

CreateOrderCmd == CreateOrderCmdFrom(SeqsUpTo(UnitTokens, MaxLines))

Next ==
    \/ InitDb
    \/ AddProduct
    \/ UpdateStock
    \/ DeleteProduct
    \/ AddCustomer
    \/ CreateOrder
    \/ CreateOrderCmd

Spec == Init /\ [][Next]_vars

----------------------------------------------------------------------------
(* OrderSpec: order placement against a stocked catalog                    *)

Catalog(price, stock) ==
    [EmptyStore EXCEPT
        !.schema = TRUE,
        !.products = [p \in ProductIds |->
                        [name |-> "A", price |-> price[p], stock |-> stock[p]]],
        !.customers = [c \in CustomerIds |-> [name |-> "n", email |-> "e"]],
        !.seq = [products |-> MaxProducts, customers |-> MaxCustomers, orders |-> 0]]

ListPrice == [p \in ProductIds |-> ((p - 1) % MaxPrice) + 1]

OrderInit ==
    /\ \E stock \in [ProductIds -> 0..MaxStock] :
          /\ store = Catalog(ListPrice, stock)
          /\ stock0 = stock
    /\ last = NoLast
    /\ lock = {}
    /\ journal = Idle(EmptyStore)
    /\ intx = Idle(FALSE)
    /\ pc = Idle("idle")
    /\ call = Idle(NoCall)
    /\ lineno = Idle(0)
    /\ row = Idle(NoRow)
    /\ order_id = Idle(0)

PlaceOrder == CreateOrderFrom(SeqsUpTo(OrderLines, MaxLines))

PlaceOrderCmd == CreateOrderCmdFrom(SeqsUpTo(Tokens, MaxLines))

OrderNext ==
    \/ PlaceOrder
    \/ PlaceOrderCmd

OrderSpec == OrderInit /\ [][OrderNext]_vars

----------------------------------------------------------------------------
(* ConcSpec: create_order calls on separate connections, one SQL statement  *)
(* per step.  The file is written in place under the RESERVED lock; the     *)
(* rollback journal keeps the committed content until the transaction ends. *)

ConcLines == [product_id : ProductIds, quantity : {1, MaxQty}]

ConcInit ==
    /\ \E stock \in [ProductIds -> {1, MaxStock}] :
          /\ store = Catalog(ListPrice, stock)
          /\ stock0 = stock
    /\ last = NoLast
    /\ lock = {}
    /\ journal = Idle(EmptyStore)
    /\ intx = Idle(FALSE)
    /\ pc = Idle("idle")
    /\ call = Idle(NoCall)
    /\ lineno = Idle(0)
    /\ row = Idle(NoRow)
    /\ order_id = Idle(0)

\* what other connections see: the journalled content while a writer is active
Committed == IF lock = {} THEN store ELSE journal[CHOOSE p \in lock : TRUE]

CanReserve_unlocked(p) == TRUE

\* SQLite grants the RESERVED lock to one connection at a time
CanReserve(p) == lock = {}

Line(p) == call[p].lines[lineno[p]]

Running == {q \in Procs : pc[q] # "idle"}

\* create_order is entered: the timestamp is taken and the connection opened
Start(p) ==
    /\ pc[p] = "idle"
    /\ store.seq.orders + Cardinality(Running) < MaxOrders
    /\ \E customer_id \in CallerCustomerIds, lines \in SeqsUpTo(ConcLines, MaxLines),
          timestamp \in Times :
          call' = [call EXCEPT ![p] = [customer_id |-> customer_id, lines |-> lines,
                                       created_at |-> timestamp]]
    /\ pc' = [pc EXCEPT ![p] = "insert_order"]
    /\ UNCHANGED <<store, last, lock, journal, intx, lineno, row, order_id, stock0>>

\* INSERT INTO orders: the implicit BEGIN, the RESERVED lock, the foreign key
ExecInsertOrder(p) ==
    /\ pc[p] = "insert_order"
    /\ CanReserve(p)
    /\ lock' = lock \cup {p}
    /\ journal' = [journal EXCEPT ![p] = store]
    /\ intx' = [intx EXCEPT ![p] = TRUE]
    /\ IF ~CustomerFkOk(store, call[p].customer_id)
       THEN /\ pc' = [pc EXCEPT ![p] = "raised"]
            /\ UNCHANGED <<store, order_id, lineno>>
       ELSE /\ store' = SqlInsertOrder(store, call[p].customer_id, call[p].created_at)
            /\ order_id' = [order_id EXCEPT ![p] = LastRowId(store')]
            /\ lineno' = [lineno EXCEPT ![p] = 1]
            /\ pc' = [pc EXCEPT ![p] = IF call[p].lines = <<>> THEN "exit" ELSE "select"]
    /\ UNCHANGED <<last, call, row, stock0>>

\* INSERT INTO orders while another connection holds the lock: once the busy
\* timeout expires sqlite3 raises "database is locked"
Busy(p) ==
    /\ pc[p] = "insert_order"
    /\ ~CanReserve(p)
    /\ pc' = [pc EXCEPT ![p] = "raised"]
    /\ UNCHANGED <<store, last, lock, journal, intx, call, lineno, row, order_id, stock0>>

\* SELECT price, stock, and the two checks on the fetched row
ExecSelect(p) ==
    /\ pc[p] = "select"
    /\ LET r == SqlSelectProduct(store, Line(p).product_id)
       IN /\ row' = [row EXCEPT ![p] = r]
          /\ pc' = [pc EXCEPT ![p] =
                IF ~r.found \/ InsufficientStock(r, Line(p)) THEN "raised"
                ELSE "insert_item"]
    /\ UNCHANGED <<store, last, lock, journal, intx, call, lineno, order_id, stock0>>

\* INSERT INTO order_items
ExecInsertItem(p) ==
    /\ pc[p] = "insert_item"
    /\ store' = SqlInsertOrderItem(store, order_id[p], Line(p), row[p])
    /\ pc' = [pc EXCEPT ![p] = "update"]
    /\ UNCHANGED <<last, lock, journal, intx, call, lineno, row, order_id, stock0>>

\* UPDATE products SET stock = stock - ?, then the next line or the end of the loop
ExecUpdate(p) ==
    /\ pc[p] = "update"
    /\ store' = SqlDecrementStock(store, Line(p))
    /\ lineno' = [lineno EXCEPT ![p] = lineno[p] + 1]
    /\ pc' = [pc EXCEPT ![p] = IF lineno[p] = Len(call[p].lines) THEN "exit" ELSE "select"]
    /\ UNCHANGED <<last, lock, journal, intx, call, row, order_id, stock0>>

\* the with block is left: commit, or rollback when an exception is passing
Exit(p) ==
    /\ pc[p] \in {"exit", "raised"}
    /\ store' = IF intx[p] THEN connection_exit(journal[p], store, pc[p] = "raised")
                ELSE store
    /\ lock' = lock \ {p}
    /\ journal' = [journal EXCEPT ![p] = EmptyStore]
    /\ intx' = [intx EXCEPT ![p] = FALSE]
    /\ pc' = [pc EXCEPT ![p] = "idle"]
    /\ call' = [call EXCEPT ![p] = NoCall]
    /\ lineno' = [lineno EXCEPT ![p] = 0]
    /\ row' = [row EXCEPT ![p] = NoRow]
    /\ order_id' = [order_id EXCEPT ![p] = 0]
    /\ UNCHANGED <<last, stock0>>

ConcNext ==
    \E p \in Procs :
        \/ Start(p)
        \/ ExecInsertOrder(p)
        \/ Busy(p)
        \/ ExecSelect(p)
        \/ ExecInsertItem(p)
        \/ ExecUpdate(p)
        \/ Exit(p)

ConcSpec == ConcInit /\ [][ConcNext]_vars

----------------------------------------------------------------------------
(* Properties *)

ItemsOf(s, oid) == SelectSeq(s.order_items, LAMBDA it : it.order_id = oid)

RECURSIVE LinesTotal(_, _, _)
LinesTotal(items, oid, k) ==
    IF k = 0 THEN 0
    ELSE LinesTotal(items, oid, k - 1) +
         (IF items[k].order_id = oid THEN items[k].quantity * items[k].price ELSE 0)

RECURSIVE QuantityOrdered(_, _, _)
QuantityOrdered(items, product_id, k) ==
    IF k = 0 THEN 0
    ELSE QuantityOrdered(items, product_id, k - 1) +
         (IF items[k].product_id = product_id THEN items[k].quantity ELSE 0)

OrderFailed(l) == l.op = "create_order" /\ l.result \in {"not_found", "insufficient_stock"}

OrderPlaced(l) == l.op = "create_order" /\ l.result = "ok"

C2_NoOverselling == \A p \in DOMAIN store.products : store.products[p].stock >= 0

\* C2 witness: an order went through and took the last unit of some product.
C2_Witness ==
    /\ OrderPlaced(last)
    /\ \E i \in 1..Len(last.lines) :
          /\ last.lines[i].quantity >= 1
          /\ store.products[last.lines[i].product_id].stock = 0

\* C3: with create_order calls running concurrently on separate connections,
\* under every interleaving the locking permits, no product's committed stock
\* is negative, the quantity of a product in committed line items never exceeds
\* the stock available before the calls started, and between a call's read of
\* a stock and its decrement no other call has changed that stock.
C3_NoOversellingConcurrent ==
    /\ \A p \in DOMAIN Committed.products :
          /\ Committed.products[p].stock >= 0
          /\ QuantityOrdered(Committed.order_items, p, Len(Committed.order_items))
                <= stock0[p]
    /\ \A q \in Procs :
          pc[q] \in {"insert_item", "update"} =>
              row[q].stock = store.products[Line(q).product_id].stock

\* C3 witness: one call is between its read and its decrement of a product's
\* last units while another call, with a line for the same product, has been
\* entered and is about to write.
C3_Witness ==
    \E p, q \in Procs :
        /\ p # q
        /\ pc[p] = "update"
        /\ pc[q] = "insert_order"
        /\ \E i \in 1..Len(call[q].lines) :
              call[q].lines[i].product_id = Line(p).product_id
        /\ row[p].stock = Line(p).quantity
        /\ Committed.order_items = <<>>

\* C4: create_order called with an empty sequence of lines (for a customer
\* that exists) fails with a validation error and leaves the store unchanged:
\* no order row is inserted.
C4_EmptyOrderRejected ==
    [][(/\ last'.op \in {"create_order", "parse_order_lines"}
        /\ last'.supplied = 0
        /\ last'.customer_id \in DOMAIN store.customers)
          => (last'.result = "validation_error" /\ store' = store)]_vars

\* C5: product stock is non-negative in every reachable state, under any
\* sequence of the public operations with any integer arguments.
C5_StockNonNegative == \A p \in DOMAIN store.products : store.products[p].stock >= 0

\* C6: every persisted order line item carries a quantity >= 1.
C6_PositiveQuantity ==
    \A k \in 1..Len(store.order_items) : store.order_items[k].quantity >= 1

\* C7: once an order is committed, no later operation changes its row, its
\* line items (quantities, captured prices) or the total list_orders reports.
C7_OrdersImmutable ==
    [][\A oid \in DOMAIN store.orders :
          /\ oid \in DOMAIN store'.orders
          /\ store'.orders[oid] = store.orders[oid]
          /\ ItemsOf(store', oid) = ItemsOf(store, oid)
          /\ {r \in list_orders(store') : r.id = oid}
                = {r \in list_orders(store) : r.id = oid}]_vars

\* C7 witness: an order with a line item exists, a later order was placed, and
\* the stock of the product the first order references has since been
\* overwritten.
C7_Witness ==
    /\ DOMAIN store.orders = {1, 2}
    /\ ItemsOf(store, 1) # <<>>
    /\ last.op = "update_product_stock"
    /\ last.id = ItemsOf(store, 1)[1].product_id
    /\ last.id \in DOMAIN store.products

\* C8: a successful create_order persists exactly one line item per requested
\* line, in order, under the new order id it returns, each with the requested
\* product id and quantity and the product's price as read in that call.
C8_LineItemsAsRequested ==
    [][OrderPlaced(last') =>
          LET n == Len(store.order_items)
              lines == last'.lines
              oid == last'.order_id
          IN /\ oid \notin DOMAIN store.orders
             /\ DOMAIN store'.orders = DOMAIN store.orders \cup {oid}
             /\ Len(lines) = last'.supplied
             /\ Len(store'.order_items) = n + Len(lines)
             /\ SubSeq(store'.order_items, 1, n) = store.order_items
             /\ \A i \in 1..Len(lines) :
                   store'.order_items[n + i] =
                       [order_id |-> oid,
                        product_id |-> lines[i].product_id,
                        quantity |-> lines[i].quantity,
                        price |-> store.products[lines[i].product_id].price]]_vars

\* C8 witness: an order of two lines for two products with different prices,
\* one of them for more than one unit.
C8_Witness ==
    /\ OrderPlaced(last)
    /\ Len(last.lines) = 2
    /\ last.lines[1].product_id # last.lines[2].product_id
    /\ last.lines[1].quantity = 2
    /\ store.products[1].price # store.products[2].price

\* C9: for every order list_orders reports, the total is the sum over the
\* order's line items of quantity * captured price, and every order that has
\* line items is reported once.
C9_ReportedTotal ==
    /\ \A r \in list_orders(store) :
          r.total = LinesTotal(store.order_items, r.id, Len(store.order_items))
    /\ \A oid \in DOMAIN store.orders :
          ItemsOf(store, oid) # <<>> =>
              Cardinality({r \in list_orders(store) : r.id = oid}) = 1

\* C9 witness: an order with two lines for the same product, one of them for
\* two units, is reported.
C9_Witness ==
    \E r \in list_orders(store) :
        /\ Len(ItemsOf(store, r.id)) = 2
        /\ ItemsOf(store, r.id)[1].product_id = ItemsOf(store, r.id)[2].product_id
        /\ ItemsOf(store, r.id)[2].quantity = 2
        /\ r.total > 2

\* C10: create_order for a customer id that is not in the store fails and
\* persists nothing: no order row, no line item, no stock change.
C10_UnknownCustomerRejected ==
    [][(last'.op = "create_order" /\ last'.customer_id \notin DOMAIN store.customers)
          => (last'.result = "integrity_error" /\ store' = store)]_vars

\* C10 witness: a call with lines for an unknown customer was refused by the
\* foreign key.
C10_Witness ==
    /\ last.op = "create_order"
    /\ last.result = "integrity_error"
    /\ last.customer_id \notin DOMAIN store.customers
    /\ last.supplied > 0

\* C11 as claimed: delete_product removes the product whenever it exists,
\* whether or not committed order line items reference it.
C11_UnconditionalDelete ==
    [][(last'.op = "delete_product" /\ last'.id \in DOMAIN store.products)
          => last'.id \notin DOMAIN store'.products]_vars

\* C11: delete_product removes an existing product, and nothing else, when no
\* order line item references it; when a line item references it the call
\* fails on the foreign key and leaves the store unchanged.
C11_DeleteUnlessReferenced ==
    [][(last'.op = "delete_product" /\ last'.id \in DOMAIN store.products) =>
          IF \E k \in 1..Len(store.order_items) :
                store.order_items[k].product_id = last'.id
          THEN last'.result = "integrity_error" /\ store' = store
          ELSE /\ last'.result = "ok"
               /\ store' = [store EXCEPT !.products =
                     [p \in DOMAIN store.products \ {last'.id} |-> store.products[p]]]]_vars

\* C11 witness: the deletion of a product that a committed line item
\* references was refused, and the product is still there.
C11_Witness ==
    /\ last.op = "delete_product"
    /\ last.result = "integrity_error"
    /\ last.id \in DOMAIN store.products
    /\ \E k \in 1..Len(store.order_items) : store.order_items[k].product_id = last.id

\* C12: in every reachable state every order references an existing customer
\* and every order line item references an existing order and an existing
\* product.
C12_ReferentialIntegrity ==
    /\ \A oid \in DOMAIN store.orders :
          store.orders[oid].customer_id \in DOMAIN store.customers
    /\ \A k \in 1..Len(store.order_items) :
          /\ store.order_items[k].order_id \in DOMAIN store.orders
          /\ store.order_items[k].product_id \in DOMAIN store.products

\* C12 witness: an order with a line item is in the store, a product has been
\* deleted since the catalog was filled, and a call for an unknown customer
\* has just been made.
C12_Witness ==
    /\ store.order_items # <<>>
    /\ Cardinality(DOMAIN store.products) < store.seq.products
    /\ last.op = "create_order"
    /\ last.customer_id \notin DOMAIN store.customers

\* C13: on an initialised store update_product_stock(product_id, stock) sets
\* the stock of that product to exactly the given value and changes nothing
\* else; when no product has that id it succeeds and changes nothing at all.
C13_UpdateStockOverwrites ==
    [][(last'.op = "update_product_stock" /\ store.schema) =>
          /\ last'.result = "ok"
          /\ DOMAIN store'.products = DOMAIN store.products
          /\ \A p \in DOMAIN store.products :
                IF p = last'.id
                THEN /\ store'.products[p].stock = last'.stock
                     /\ store'.products[p].name = store.products[p].name
                     /\ store'.products[p].price = store.products[p].price
                ELSE store'.products[p] = store.products[p]
          /\ store'.customers = store.customers
          /\ store'.orders = store.orders
          /\ store'.order_items = store.order_items
          /\ store'.seq = store.seq
          /\ store'.schema = store.schema
          /\ (last'.id \notin DOMAIN store.products => store' = store)]_vars

\* C13 witness: with two products, an order and a line item in the store, the
\* stock of one product has just been overwritten with a value different from
\* the other product's stock.
C13_Witness ==
    /\ last.op = "update_product_stock"
    /\ last.result = "ok"
    /\ Cardinality(DOMAIN store.products) = 2
    /\ last.id \in DOMAIN store.products
    /\ store.products[last.id].stock = last.stock
    /\ \E p \in DOMAIN store.products : p # last.id /\ store.products[p].stock # last.stock
    /\ store.order_items # <<>>

\* C14: when a line fails for insufficient stock, the quantity reported as
\* available is the product's stock at that line's check, that is the stock
\* before the call less the quantities of the earlier lines of the same call
\* for that product; it is below the requested quantity, and the store after
\* the failed call is the store before it.
C14_AvailableAtCheckTime ==
    [][(last'.op = "create_order" /\ last'.result = "insufficient_stock") =>
          LET k == last'.failed_at
              line == last'.lines[k]
          IN /\ line.product_id \in DOMAIN store.products
             /\ last'.available =
                   store.products[line.product_id].stock
                      - QuantityOrdered(last'.lines, line.product_id, k - 1)
             /\ last'.available < line.quantity
             /\ store' = store]_vars

\* C14 witness: after an earlier order had taken units of a product, a call
\* whose first line took one more unit failed at its second line for the same
\* product; what was reported is what that first line had left, and the stock
\* is back at its value before the call.
C14_Witness ==
    /\ last.op = "create_order"
    /\ last.result = "insufficient_stock"
    /\ last.failed_at = 2
    /\ last.lines[1].product_id = last.lines[2].product_id
    /\ last.lines[1].quantity = 1
    /\ store.products[last.lines[2].product_id].stock = last.available + 1
    /\ \E k \in 1..Len(store.order_items) :
          /\ store.order_items[k].product_id = last.lines[2].product_id
          /\ store.order_items[k].quantity >= 1

\* C15: init_db raises no error; on a store whose schema exists it leaves the
\* schema and every product, customer, order and line-item row as they were;
\* and running it once more after any run changes nothing.
C15_InitDbIdempotent ==
    [][last'.op = "init_db" =>
          /\ last'.result = "ok"
          /\ store'.schema
          /\ (store.schema => store' = store)
          /\ init_db(store').store = store'
          /\ init_db(store').result = "ok"]_vars

\* C15 witness: init_db has just been run on a store that holds a product, a
\* customer, an order and a line item.
C15_Witness ==
    /\ last.op = "init_db"
    /\ last.result = "ok"
    /\ DOMAIN store.products # {}
    /\ DOMAIN store.customers # {}
    /\ DOMAIN store.orders # {}
    /\ store.order_items # <<>>

\* line i of a call fits: its product exists, and the quantities of lines 1..i
\* for that product add up to no more than the product's stock before the call
LineFits(s, lines, i) ==
    /\ lines[i].product_id \in DOMAIN s.products
    /\ QuantityOrdered(lines, lines[i].product_id, i)
          <= s.products[lines[i].product_id].stock

C17_StockConservation ==
    [][/\ DOMAIN store'.products = DOMAIN store.products
       /\ \A p \in DOMAIN store'.products :
             store'.products[p].stock
                + QuantityOrdered(store'.order_items, p, Len(store'.order_items))
                = stock0[p]
       /\ OrderPlaced(last') =>
             \A p \in DOMAIN store.products :
                 store'.products[p].stock
                    = store.products[p].stock
                        - QuantityOrdered(last'.lines, p, Len(last'.lines))
       /\ OrderPlaced(last') =>
             \A p \in DOMAIN store.products \ last'.named :
                 store'.products[p] = store.products[p]]_vars

\* C17 witness: after an earlier order, a two-line order for one product was
\* placed; that product's stock is down by everything ordered, the other
\* product still has the stock it was added with.
C17_Witness ==
    /\ OrderPlaced(last)
    /\ last.supplied = 2
    /\ last.order_id > 1
    /\ \E p \in DOMAIN store.products :
          /\ last.named = {p}
          /\ \A i \in 1..2 : last.lines[i].quantity >= 1
          /\ store.products[p].stock < stock0[p]
          /\ \A q \in DOMAIN store.products \ {p} :
                store.products[q].stock = stock0[q] /\ stock0[q] > 0

====
